---- MODULE Spec2Model ----
(***************************************************************************)
(* Model of src/index.ts of mcp-weather-ukraine: the HTTP fetcher          *)
(* (makeRequest), the geocoder (geocodeCity), the forecast formatter       *)
(* (formatForecastText) and the get_forecast tool handler.                 *)
(*                                                                         *)
(* Encoding.  A JavaScript value is a record tagged by its type:           *)
(*   [t |-> "undefined"], [t |-> "null"], [t |-> "number", n |-> Int],     *)
(*   [t |-> "string", s |-> STRING], [t |-> "object", f |-> record of      *)
(*   values], [t |-> "array", a |-> sequence of values].                   *)
(* A coordinate is a number counted in units of 0.0001 degree, so          *)
(* 50.4501 is 504501; every other number is an integer.  The Ukrainian     *)
(* texts of the table T are written in Latin transliteration and the       *)
(* characters outside ASCII of the templates (degree sign, dashes,         *)
(* ellipsis) by ASCII stand-ins.  A line pushed by the formatter is the    *)
(* sequence of the segments of its template literal (a leading "\n" is a   *)
(* segment of its own); a text, the joined lines, is the sequence of its   *)
(* physical lines, a blank line being the empty sequence.                  *)
(***************************************************************************)
EXTENDS Integers, Sequences, FiniteSets, TLC

VARIABLES pc, args, lat, lon, placeName, pending, calls, fetched, formatted,
          result, fmtIn, fmtOut

vars == <<pc, args, lat, lon, placeName, pending, calls, fetched, formatted,
          result, fmtIn, fmtOut>>

(* ------------------------------ bounds --------------------------------- *)

\* longest daily series a forecast payload of the model carries
MaxDays == 8

\* number of concurrent handler invocations in SpecConc
NumInv == 2

(* ------------------------- program constants --------------------------- *)

GEOCODING_BASE == "https://geocoding-api.open-meteo.com/v1/search"

FORECAST_BASE == "https://api.open-meteo.com/v1/forecast"

\* 50.4501 in units of 0.0001 degree
DEFAULT_LATITUDE == 504501

\* 30.5234 in units of 0.0001 degree
DEFAULT_LONGITUDE == 305234

DEFAULT_TIMEZONE == "Europe/Kyiv"

DEFAULT_LANGUAGE == "uk"

\* the 7 of Math.min(dates.length, 7)
DailyLimit == 7

T == [forecastFor |-> "Prohnoz dlia",
      temperature |-> "Temperatura",
      wind        |-> "Viter",
      noData      |-> "Dani nedostupni",
      failed      |-> "Ne vdalosia otrymaty dani",
      current     |-> "Potochni umovy"]

(* --------------------------- JavaScript values ------------------------- *)

Undef == [t |-> "undefined"]

Null == [t |-> "null"]

Num(n) == [t |-> "number", n |-> n]

Str(s) == [t |-> "string", s |-> s]

Obj(f) == [t |-> "object", f |-> f]

Arr(a) == [t |-> "array", a |-> a]

\* ToBoolean: undefined, null, 0 and "" are falsy (the schema admits no NaN)
Truthy(v) ==
  CASE v.t = "undefined" -> FALSE
    [] v.t = "null"      -> FALSE
    [] v.t = "number"    -> v.n # 0
    [] v.t = "string"    -> v.s # ""
    [] OTHER             -> TRUE

\* v.k on a value that is neither null nor undefined
Get(v, k) ==
  IF v.t = "object" /\ k \in DOMAIN v.f THEN v.f[k] ELSE Undef

\* v[i], i counted from 0 as in the source
Index(v, i) ==
  IF v.t = "array" /\ i >= 0 /\ i < Len(v.a) THEN v.a[i + 1] ELSE Undef

\* v.length
Length(v) ==
  IF v.t = "array" THEN Num(Len(v.a)) ELSE Undef

\* a || b
OrElse(a, b) == IF Truthy(a) THEN a ELSE b

Abs(n) == IF n < 0 THEN -n ELSE n

\* k written with w digits, zero padded (w <= 4)
PadTo(k, w) ==
  (IF w >= 4 /\ k < 1000 THEN "0" ELSE "") \o
  (IF w >= 3 /\ k < 100 THEN "0" ELSE "") \o
  (IF w >= 2 /\ k < 10 THEN "0" ELSE "") \o ToString(k)

\* Number.prototype.toFixed(4) of a coordinate
ToFixed4(n) ==
  (IF n < 0 THEN "-" ELSE "") \o ToString(Abs(n) \div 10000) \o "." \o
  PadTo(Abs(n) % 10000, 4)

\* the fraction digits of String(x), k in 1..9999: trailing zeros are dropped
Frac(k) ==
  IF k % 1000 = 0 THEN PadTo(k \div 1000, 1)
  ELSE IF k % 100 = 0 THEN PadTo(k \div 100, 2)
  ELSE IF k % 10 = 0 THEN PadTo(k \div 10, 3)
  ELSE PadTo(k, 4)

\* String(x) of a coordinate
CoordToString(n) ==
  (IF n < 0 THEN "-" ELSE "") \o ToString(Abs(n) \div 10000) \o
  (IF Abs(n) % 10000 = 0 THEN "" ELSE "." \o Frac(Abs(n) % 10000))

\* String(v) of a value held in lat or lon
StringOf(v) ==
  CASE v.t = "number"    -> CoordToString(v.n)
    [] v.t = "string"    -> v.s
    [] v.t = "null"      -> "null"
    [] v.t = "undefined" -> "undefined"
    [] OTHER             -> "[object Object]"

\* the conversion a template literal applies to ${v}
Interp(v) ==
  CASE v.t = "number"    -> ToString(v.n)
    [] v.t = "string"    -> v.s
    [] v.t = "null"      -> "null"
    [] v.t = "undefined" -> "undefined"
    [] OTHER             -> "[object Object]"

(* ------------------------------ completions ---------------------------- *)

\* how a call ends: it returns a value or it throws (an async function rejects)
Returned(v) == [threw |-> FALSE, value |-> v]

Thrown == [threw |-> TRUE, value |-> Undef]

(* ------------------------------ makeRequest ---------------------------- *)

\* What the network does with one request: fetch rejects, or it resolves to a
\* response with a status and a body that parses as JSON or does not.
Rejected == [kind |-> "rejected"]

Response(status, valid, json) ==
  [kind |-> "response", status |-> status, valid |-> valid, json |-> json]

\* Response.ok
ResOk(status) == status >= 200 /\ status <= 299

\* a faulty variant of the try block: the status is not looked at
MakeRequestTryNoOkCheck(o) ==
  IF o.kind = "rejected" THEN Thrown
  ELSE IF ~o.valid THEN Thrown
  ELSE Returned(o.json)

\* the try block: await fetch(url); if (!res.ok) throw; return await res.json()
MakeRequestTry(o) ==
  IF o.kind = "rejected" THEN Thrown
  ELSE IF ~ResOk(o.status) THEN Thrown
  ELSE IF ~o.valid THEN Thrown
  ELSE Returned(o.json)

\* try { ... } catch (err) { console.error(...); return null; }
MakeRequest(o) ==
  LET r == MakeRequestTry(o) IN IF r.threw THEN Returned(Null) ELSE r

(* ------------------------------ geocodeCity ---------------------------- *)

\* a string with a lone surrogate, on which encodeURIComponent throws URIError
LoneSurrogate == "\\uD800"

EncodeThrows(s) == s = LoneSurrogate

\* encodeURIComponent on the city names of the model
EncodeURIComponent(s) ==
  CASE s = "Bila Tserkva" -> "Bila%20Tserkva"
    [] OTHER              -> s

\* the geocoding URL
GeocodingUrl(city) ==
  [base |-> GEOCODING_BASE, name |-> EncodeURIComponent(city), count |-> "1",
   language |-> DEFAULT_LANGUAGE]

\* data?.results?.[0]
FirstResult(data) ==
  IF data.t \in {"null", "undefined"} THEN Undef
  ELSE LET r == Get(data, "results")
       IN IF r.t \in {"null", "undefined"} THEN Undef ELSE Index(r, 0)

\* what geocodeCity returns once makeRequest has returned data
GeocodeResult(data) ==
  LET first == FirstResult(data)
  IN IF ~Truthy(first) THEN Null
     ELSE Obj([latitude  |-> Get(first, "latitude"),
               longitude |-> Get(first, "longitude"),
               name      |-> Get(first, "name")])

(* --------------------------- formatForecastText ------------------------ *)

Min(a, b) == IF a < b THEN a ELSE b

\* lines.join("\n") as the sequence of physical lines
RECURSIVE Join(_)
Join(lines) ==
  IF lines = <<>> THEN <<>>
  ELSE LET e == Head(lines)
       IN (IF e # <<>> /\ e[1] = "\n" THEN <<<<>>, Tail(e)>> ELSE <<e>>)
          \o Join(Tail(lines))

\* const loc = placeName ? ... : ...   (lat and lon are numbers here)
Loc(la, lo, place) ==
  IF Truthy(place)
  THEN Interp(place) \o " (" \o ToFixed4(la.n) \o ", " \o ToFixed4(lo.n) \o ")"
  ELSE ToFixed4(la.n) \o ", " \o ToFixed4(lo.n)

\* a faulty variant of CurrentLines: the "no data" line is pushed in any case
CurrentLinesNoElse(data) ==
  LET cur == Get(data, "current_weather")
  IN (IF Truthy(cur)
      THEN << <<"\n", T.current, ":">>,
              <<T.temperature, ": ", Interp(Get(cur, "temperature")), " C">>,
              <<T.wind, ": ", Interp(Get(cur, "windspeed")), " km/h (",
                Interp(Get(cur, "winddirection")), " deg)">>,
              <<"Chas: ", Interp(Get(cur, "time"))>> >>
      ELSE <<>>) \o << <<T.noData>> >>

\* the lines pushed for data.current_weather
CurrentLines(data) ==
  LET cur == Get(data, "current_weather")
  IN IF Truthy(cur)
     THEN << <<"\n", T.current, ":">>,
             <<T.temperature, ": ", Interp(Get(cur, "temperature")), " C">>,
             <<T.wind, ": ", Interp(Get(cur, "windspeed")), " km/h (",
               Interp(Get(cur, "winddirection")), " deg)">>,
             <<"Chas: ", Interp(Get(cur, "time"))>> >>
     ELSE << <<T.noData>> >>

\* a faulty variant of LoopBound: every entry of the series is rendered
LoopBoundNoLimit(n) == n

\* the bound of the loop: Math.min(dates.length, 7)
LoopBound(n) == Min(n, DailyLimit)

\* the lines pushed for data.daily
DailyLines(data) ==
  LET daily == Get(data, "daily")
  IN IF ~Truthy(daily) THEN <<>>
     ELSE LET dates    == OrElse(Get(daily, "time"), Arr(<<>>))
              maxTemps == OrElse(Get(daily, "temperature_2m_max"), Arr(<<>>))
              minTemps == OrElse(Get(daily, "temperature_2m_min"), Arr(<<>>))
              precip   == OrElse(Get(daily, "precipitation_sum"), Arr(<<>>))
              len      == Length(dates)
          IN IF len.t = "number" /\ len.n > 0
             THEN << <<"\n", "Dennyi prohnoz:">> >> \o
                  [k \in 1..LoopBound(len.n) |->
                     <<Interp(Index(dates, k - 1)), " - ", T.temperature, ": ",
                       Interp(Index(minTemps, k - 1)), "...",
                       Interp(Index(maxTemps, k - 1)), " C, opady: ",
                       Interp(Index(precip, k - 1)), " mm">>]
             ELSE <<>>

\* the formatter throwing (its text is then no result)
FormatThrown == [threw |-> TRUE, text |-> <<>>]

\* formatForecastText(lat, lon, data, placeName): TypeError when toFixed is
\* called on a lat or lon that is no number, or a field of a null data is read
FormatForecastText(la, lo, data, place) ==
  IF la.t # "number" \/ lo.t # "number" THEN FormatThrown
  ELSE IF data.t \in {"null", "undefined"} THEN FormatThrown
  ELSE [threw |-> FALSE,
        text  |-> Join(<< <<T.forecastFor, " ", Loc(la, lo, place)>> >>
                       \o CurrentLines(data) \o DailyLines(data))]

(* --------------------------- get_forecast handler ---------------------- *)

\* how an invocation stands: not yet returned, returned { content: [...] },
\* or rejected with an exception
NoResult == [status |-> "none", content |-> <<>>]

TextResult(text) ==
  [status |-> "returned", content |-> << [type |-> "text", text |-> text] >>]

ThrewResult == [status |-> "threw", content |-> <<>>]

\* `${T.failed}: <not found> '${city}'`
NotFoundText(city) ==
  << <<T.failed, ": ne znaideno misto '", Interp(city), "'">> >>

\* `${T.failed}: <error while fetching data>`
FailedText == << <<T.failed, ": pomylka pry otrymanni danykh">> >>

\* new URLSearchParams({...}) on FORECAST_BASE
ForecastUrl(la, lo) ==
  [base             |-> FORECAST_BASE,
   latitude         |-> StringOf(la),
   longitude        |-> StringOf(lo),
   current_weather  |-> "true",
   daily            |-> "temperature_2m_max,temperature_2m_min,precipitation_sum",
   timezone         |-> DEFAULT_TIMEZONE,
   temperature_unit |-> "celsius",
   windspeed_unit   |-> "kmh"]

\* the outcome of the code between two suspension points: where the handler
\* goes next, its locals, its result and the formatter calls it made
Step(next, la, lo, place, res, fmt) ==
  [next |-> next, lat |-> la, lon |-> lo, placeName |-> place, result |-> res,
   fmt |-> fmt]

\* a faulty variant of UseExplicit: one truthy coordinate is enough
UseExplicitEither(la, lo) == Truthy(la) \/ Truthy(lo)

\* if (!lat || !lon): explicit coordinates are used only when both are truthy
UseExplicit(la, lo) == ~(~Truthy(la) \/ ~Truthy(lo))

\* a faulty variant of DefaultStep: the display name is not set
DefaultStepNoName ==
  Step("forecasting", Num(DEFAULT_LATITUDE), Num(DEFAULT_LONGITUDE), Undef,
       NoResult, <<>>)

\* lat = DEFAULT_LATITUDE; lon = DEFAULT_LONGITUDE; placeName = "Kyiv"
DefaultStep ==
  Step("forecasting", Num(DEFAULT_LATITUDE), Num(DEFAULT_LONGITUDE),
       Str("Kyiv"), NoResult, <<>>)

\* from the call to the first await: the resolution of the coordinates up to
\* the geocoding request, the forecast request, or the URIError of
\* encodeURIComponent, which no try block encloses
StartStep(a) ==
  IF UseExplicit(a.latitude, a.longitude)
  THEN Step("forecasting", a.latitude, a.longitude, Undef, NoResult, <<>>)
  ELSE IF Truthy(a.city)
       THEN IF EncodeThrows(a.city.s)
            THEN Step("done", a.latitude, a.longitude, Undef, ThrewResult, <<>>)
            ELSE Step("geocoding", a.latitude, a.longitude, Undef, NoResult, <<>>)
       ELSE DefaultStep

\* a faulty variant of AfterGeocode: a city that is not found falls back to
\* the default coordinates
AfterGeocodeFallsBack(a, la, lo, place, o) ==
  LET r   == MakeRequest(o)
      geo == IF r.threw THEN Null ELSE GeocodeResult(r.value)
  IN IF r.threw THEN Step("done", la, lo, place, ThrewResult, <<>>)
     ELSE IF ~Truthy(geo)
          THEN DefaultStep
          ELSE Step("forecasting", Get(geo, "latitude"), Get(geo, "longitude"),
                    Get(geo, "name"), NoResult, <<>>)

\* a faulty variant of AfterGeocode: a failed geocoding request is repeated
AfterGeocodeRetries(a, la, lo, place, o) ==
  LET r   == MakeRequest(o)
      geo == IF r.threw THEN Null ELSE GeocodeResult(r.value)
  IN IF r.threw THEN Step("done", la, lo, place, ThrewResult, <<>>)
     ELSE IF r.value.t = "null"
          THEN Step("geocoding", la, lo, place, NoResult, <<>>)
          ELSE IF ~Truthy(geo)
               THEN Step("done", la, lo, place, TextResult(NotFoundText(a.city)), <<>>)
               ELSE Step("forecasting", Get(geo, "latitude"), Get(geo, "longitude"),
                         Get(geo, "name"), NoResult, <<>>)

\* from the geocoding response to the return of the "not found" message or to
\* the forecast request
AfterGeocode(a, la, lo, place, o) ==
  LET r   == MakeRequest(o)
      geo == IF r.threw THEN Null ELSE GeocodeResult(r.value)
  IN IF r.threw THEN Step("done", la, lo, place, ThrewResult, <<>>)
     ELSE IF ~Truthy(geo)
          THEN Step("done", la, lo, place, TextResult(NotFoundText(a.city)), <<>>)
          ELSE Step("forecasting", Get(geo, "latitude"), Get(geo, "longitude"),
                    Get(geo, "name"), NoResult, <<>>)

\* a faulty variant of AfterForecast: the payload is formatted unchecked
AfterForecastNoNullCheck(la, lo, place, o) ==
  LET r    == MakeRequest(o)
      call == [lat |-> la, lon |-> lo, data |-> r.value, placeName |-> place]
      f    == FormatForecastText(la, lo, r.value, place)
  IN IF r.threw THEN Step("done", la, lo, place, ThrewResult, <<>>)
     ELSE Step("done", la, lo, place,
               IF f.threw THEN ThrewResult ELSE TextResult(f.text), <<call>>)

\* from the forecast response to the return
AfterForecast(la, lo, place, o) ==
  LET r    == MakeRequest(o)
      call == [lat |-> la, lon |-> lo, data |-> r.value, placeName |-> place]
      f    == FormatForecastText(la, lo, r.value, place)
  IN IF r.threw THEN Step("done", la, lo, place, ThrewResult, <<>>)
     ELSE IF ~Truthy(r.value)
          THEN Step("done", la, lo, place, TextResult(FailedText), <<>>)
          ELSE Step("done", la, lo, place,
                    IF f.threw THEN ThrewResult ELSE TextResult(f.text),
                    <<call>>)

\* the requests a step issues: the one its next suspension point awaits
Requests(a, st) ==
  CASE st.next = "geocoding"   -> << [api |-> "geocoding",
                                      url |-> GeocodingUrl(a.city.s)] >>
    [] st.next = "forecasting" -> << [api |-> "forecast",
                                      url |-> ForecastUrl(st.lat, st.lon)] >>
    [] OTHER                   -> <<>>

\* a faulty variant of SetLocal: the variable is one for all invocations
SetLocalShared(f, i, v) == [j \in DOMAIN f |-> v]

\* the locals of the handler's closure belong to the invocation
SetLocal(f, i, v) == [f EXCEPT ![i] = v]

Range(q) == {q[k] : k \in 1..Len(q)}

\* invocation i takes the step st
Take(i, a, st) ==
  /\ pc' = [pc EXCEPT ![i] = st.next]
  /\ args' = SetLocal(args, i, a)
  /\ lat' = SetLocal(lat, i, st.lat)
  /\ lon' = SetLocal(lon, i, st.lon)
  /\ placeName' = SetLocal(placeName, i, st.placeName)
  /\ pending' = [pending EXCEPT ![i] = Range(Requests(a, st))]
  /\ calls' = [calls EXCEPT ![i] = @ \o Requests(a, st)]
  /\ formatted' = [formatted EXCEPT ![i] = @ \o st.fmt]
  /\ result' = [result EXCEPT ![i] = st.result]
  /\ UNCHANGED <<fmtIn, fmtOut>>

\* the tool is called with the schema-valid arguments a
Invoke(i, A) ==
  \E a \in A :
    /\ pc[i] = "idle"
    /\ Take(i, a, StartStep(a))
    /\ UNCHANGED fetched

\* the geocoding request of invocation i ends with the outcome o
GeocodeDone(i, O) ==
  \E o \in O :
    /\ pc[i] = "geocoding"
    /\ \E q \in pending[i] : q.api = "geocoding"
    /\ Take(i, args[i], AfterGeocode(args[i], lat[i], lon[i], placeName[i], o))
    /\ fetched' = [fetched EXCEPT ![i] =
                     Append(@, [api |-> "geocoding", outcome |-> o,
                                ret |-> MakeRequest(o)])]

\* the forecast request of invocation i ends with the outcome o
ForecastDone(i, O) ==
  \E o \in O :
    /\ pc[i] = "forecasting"
    /\ \E q \in pending[i] : q.api = "forecast"
    /\ Take(i, args[i], AfterForecast(lat[i], lon[i], placeName[i], o))
    /\ fetched' = [fetched EXCEPT ![i] =
                     Append(@, [api |-> "forecast", outcome |-> o,
                                ret |-> MakeRequest(o)])]

(* -------------------------------- inputs ------------------------------- *)

\* arguments the schema admits: city an optional string; latitude an optional
\* number in -90..90, longitude one in -180..180 (here 49.8397, -33.5, 24.0297
\* and 180, and 0)
Cities == {Undef, Str(""), Str("Lviv"), Str("Bila Tserkva"), Str(LoneSurrogate)}

Latitudes == {Undef, Num(0), Num(498397), Num(-335000)}

Longitudes == {Undef, Num(0), Num(240297), Num(1800000)}

Args == [city : Cities, latitude : Latitudes, longitude : Longitudes]

\* one entry of the geocoding API's results array
Place(la, lo, name) ==
  Obj([latitude |-> la, longitude |-> lo, name |-> name, country |-> Str("UA")])

NoCoordsPlace == Obj([name |-> Str("Lviv"), country |-> Str("UA")])

Results(q) == Obj([results |-> Arr(q), generationtime_ms |-> Num(1)])

\* JSON values a geocoding response may parse to
GeoJsons ==
  { Null, Num(5),
    Obj([generationtime_ms |-> Num(1)]),
    Obj([results |-> Null]),
    Results(<<>>),
    Results(<<Null>>),
    Results(<<Place(Num(498397), Num(240297), Str("Lviv"))>>),
    Results(<<Place(Num(497942), Num(301311), Str("Bila Tserkva")),
              Place(Num(10000), Num(20000), Str("Other"))>>),
    Results(<<Place(Num(0), Num(0), Undef)>>),
    Results(<<NoCoordsPlace>>),
    Results(<<Place(Str("49.84"), Str("24.03"), Str("Lviv"))>>),
    Results(<<Str("Lviv")>>) }

\* what the network may do with a request whose 2xx JSON bodies are J
Outcomes(J) ==
  {Rejected, Response(200, FALSE, Undef), Response(404, FALSE, Undef)}
  \cup {Response(200, TRUE, j) : j \in J}
  \cup {Response(st, TRUE, j) : st \in {199, 299, 300, 500}, j \in {Null} }

GeoErrorBodies ==
  {Response(st, TRUE, Results(<<Place(Num(498397), Num(240297), Str("Lviv"))>>)) :
     st \in {199, 300, 404}}

GeoOutcomes == Outcomes(GeoJsons) \cup GeoErrorBodies

CurrentWeather ==
  Obj([temperature |-> Num(21), windspeed |-> Num(12), winddirection |-> Num(270),
       weathercode |-> Num(3), time |-> Str("2024-06-01T12:00")])

Dates(n) == IF n = 0 THEN <<>> ELSE [k \in 1..n |-> Str("2024-06-0" \o ToString(k))]

Numbers(n, base) == IF n = 0 THEN <<>> ELSE [k \in 1..n |-> Num(base + k)]

\* a daily record with n dates and m entries in each parallel series
Daily(n, m) ==
  Obj([time |-> Arr(Dates(n)), temperature_2m_max |-> Arr(Numbers(m, 20)),
       temperature_2m_min |-> Arr(Numbers(m, 10)),
       precipitation_sum |-> Arr(Numbers(m, 0))])

\* the daily records of the model: none, one with no time series, and the
\* well-formed ones of 0..MaxDays days, and short parallel series
Dailies ==
  {Undef, Obj([temperature_2m_max |-> Arr(Numbers(2, 20))])}
  \cup {Daily(n, n) : n \in 0..MaxDays}
  \cup {Daily(n, n - 1) : n \in {1, DailyLimit}}

ForecastObject(cur, daily) ==
  CASE Truthy(cur) /\ Truthy(daily) ->
         Obj([latitude |-> Num(504375), longitude |-> Num(305000),
              current_weather |-> cur, daily |-> daily])
    [] Truthy(cur) /\ ~Truthy(daily) ->
         Obj([latitude |-> Num(504375), longitude |-> Num(305000),
              current_weather |-> cur])
    [] ~Truthy(cur) /\ Truthy(daily) ->
         Obj([latitude |-> Num(504375), longitude |-> Num(305000),
              daily |-> daily])
    [] OTHER ->
         Obj([latitude |-> Num(504375), longitude |-> Num(305000)])

ForecastObjects == {ForecastObject(c, d) : c \in {Undef, CurrentWeather}, d \in Dailies}

\* JSON values a forecast response may parse to
ForecastJsons == {Null, Num(0), Str(""), Num(7)} \cup ForecastObjects

ForecastErrorBodies ==
  {Response(st, TRUE, ForecastObject(CurrentWeather, Daily(2, 2))) :
     st \in {199, 300, 500}}

ForecastOutcomes == Outcomes(ForecastJsons) \cup ForecastErrorBodies

(* ------------------------- one invocation: Spec ------------------------ *)

\* the formatter's input and output when it is run on its own (SpecFormat)
NoInput == [lat |-> Undef, lon |-> Undef, data |-> Undef, placeName |-> Undef]

NoOutput == [done |-> FALSE, threw |-> FALSE, text |-> <<>>]

InitHandler(P) ==
  /\ pc = [i \in P |-> "idle"]
  /\ args = [i \in P |-> [city |-> Undef, latitude |-> Undef, longitude |-> Undef]]
  /\ lat = [i \in P |-> Undef]
  /\ lon = [i \in P |-> Undef]
  /\ placeName = [i \in P |-> Undef]
  /\ pending = [i \in P |-> {}]
  /\ calls = [i \in P |-> <<>>]
  /\ fetched = [i \in P |-> <<>>]
  /\ formatted = [i \in P |-> <<>>]
  /\ result = [i \in P |-> NoResult]

Init == InitHandler({1}) /\ fmtIn = NoInput /\ fmtOut = NoOutput

CallTool == \E i \in DOMAIN pc : Invoke(i, Args)

GeocodingResponse == \E i \in DOMAIN pc : GeocodeDone(i, GeoOutcomes)

ForecastResponse == \E i \in DOMAIN pc : ForecastDone(i, ForecastOutcomes)

Next == CallTool \/ GeocodingResponse \/ ForecastResponse

Spec == Init /\ [][Next]_vars

(* ------------------- concurrent invocations: SpecConc ------------------ *)

ConcArgs ==
  { [city |-> Undef, latitude |-> Undef, longitude |-> Undef],
    [city |-> Str("Lviv"), latitude |-> Undef, longitude |-> Undef],
    [city |-> Str("Lviv"), latitude |-> Num(-335000), longitude |-> Num(1800000)] }

ConcGeoOutcomes ==
  { Rejected,
    Response(200, TRUE, Results(<<Place(Num(498397), Num(240297), Str("Lviv"))>>)),
    Response(200, TRUE, Results(<<NoCoordsPlace>>)) }

ConcForecastOutcomes ==
  { Rejected,
    Response(200, TRUE, ForecastObject(CurrentWeather, Daily(2, 2))),
    Response(200, TRUE, ForecastObject(Undef, Undef)) }

InitConc == InitHandler(1..NumInv) /\ fmtIn = NoInput /\ fmtOut = NoOutput

ConcCallTool == \E i \in DOMAIN pc : Invoke(i, ConcArgs)

ConcGeocodingResponse == \E i \in DOMAIN pc : GeocodeDone(i, ConcGeoOutcomes)

ConcForecastResponse == \E i \in DOMAIN pc : ForecastDone(i, ConcForecastOutcomes)

NextConc == ConcCallTool \/ ConcGeocodingResponse \/ ConcForecastResponse

SpecConc == InitConc /\ [][NextConc]_vars

(* ------------------- the formatter alone: SpecFormat ------------------- *)

FormatInputs ==
  [lat : {Num(DEFAULT_LATITUDE), Num(-335000), Num(5000), Undef},
   lon : {Num(DEFAULT_LONGITUDE), Str("24.03")},
   data : ForecastObjects \cup {Num(7)},
   placeName : {Undef, Str(""), Str("Kyiv")}]

InitFormat == InitHandler({}) /\ fmtIn \in FormatInputs /\ fmtOut = NoOutput

\* one call formatForecastText(lat, lon, data, placeName)
Format ==
  /\ ~fmtOut.done
  /\ LET f == FormatForecastText(fmtIn.lat, fmtIn.lon, fmtIn.data, fmtIn.placeName)
     IN fmtOut' = [done |-> TRUE, threw |-> f.threw, text |-> f.text]
  /\ UNCHANGED <<pc, args, lat, lon, placeName, pending, calls, fetched,
                 formatted, result, fmtIn>>

NextFormat == Format

SpecFormat == InitFormat /\ [][NextFormat]_vars

(* ============================== properties ============================= *)

Invocations == DOMAIN pc

\* the calls of invocation i to one API, in the order they were issued
CallsTo(i, api) == SelectSeq(calls[i], LAMBDA c : c.api = api)

\* the completed makeRequest calls of invocation i for one API
FetchedFrom(i, api) == SelectSeq(fetched[i], LAMBDA e : e.api = api)

\* the arguments name a city: a string that is not empty
CityGiven(a) == a.city.t = "string" /\ a.city.s # ""

\* both coordinates are provided and neither is 0
BothNonZero(a) ==
  /\ a.latitude.t = "number" /\ a.latitude.n # 0
  /\ a.longitude.t = "number" /\ a.longitude.n # 0

\* the fetcher returned null, or the results array is absent or empty
NoGeocodingResult(v) ==
  \/ v.t = "null"
  \/ v.t = "object" /\ "results" \notin DOMAIN v.f
  \/ v.t = "object" /\ "results" \in DOMAIN v.f /\ v.f.results.t = "null"
  \/ v.t = "object" /\ "results" \in DOMAIN v.f /\ v.f.results.t = "array"
       /\ Len(v.f.results.a) = 0

\* the coordinates of the model, and Number(s): the number a decimal string
\* of a query denotes
Coordinates ==
  {DEFAULT_LATITUDE, DEFAULT_LONGITUDE, 0, 498397, -335000, 240297, 1800000,
   497942, 301311, 10000, 20000}

ParseCoord(str) ==
  IF \E n \in Coordinates : CoordToString(n) = str
  THEN Num(CHOOSE n \in Coordinates : CoordToString(n) = str)
  ELSE Undef

\* the result is a normal one whose content is exactly one text item
OneTextItem(r) ==
  /\ r.status = "returned"
  /\ Len(r.content) = 1
  /\ r.content[1].type = "text"

\* C1: whenever an invocation geocoded its city and the geocoder found nothing
\* (the fetcher returned null, or the results array is absent or empty), the
\* invocation has returned the "not found" message naming the city and has
\* issued no forecast request.
C1_NotFoundStops ==
  \A i \in Invocations :
    \A k \in 1..Len(FetchedFrom(i, "geocoding")) :
      NoGeocodingResult(FetchedFrom(i, "geocoding")[k].ret.value) =>
        /\ pc[i] = "done"
        /\ result[i] = TextResult(NotFoundText(args[i].city))
        /\ Len(CallsTo(i, "forecast")) = 0
        /\ \A q \in pending[i] : q.api # "forecast"

C1_Witness ==
  \E i \in Invocations :
    /\ pc[i] = "done"
    /\ CityGiven(args[i])
    /\ Len(FetchedFrom(i, "geocoding")) = 1
    /\ FetchedFrom(i, "geocoding")[1].outcome = Response(200, TRUE, Results(<<>>))
    /\ result[i] = TextResult(NotFoundText(Str("Lviv")))
    /\ Len(CallsTo(i, "forecast")) = 0

\* C2: every invocation that has ended has ended with a normal result whose
\* content is exactly one text item: the handler never throws.
C2_NeverThrows ==
  \A i \in Invocations : pc[i] = "done" => OneTextItem(result[i])

\* C3: explicit coordinates are used as they are exactly when both are provided
\* and non-zero: then no geocoding request is made, city or not, and the
\* forecast query carries those coordinates. Otherwise the supplied coordinates
\* are dropped: with a non-empty city the first request is the geocoding one
\* and a forecast query carries the geocoded coordinates; without one the
\* forecast query carries the default coordinates.
C3_ExplicitCoordinates ==
  \A i \in Invocations :
    pc[i] # "idle" =>
      LET a  == args[i]
          fc == CallsTo(i, "forecast")
          ge == FetchedFrom(i, "geocoding")
      IN /\ BothNonZero(a) =>
              /\ Len(CallsTo(i, "geocoding")) = 0
              /\ Len(calls[i]) = 1
              /\ fc # <<>>
              /\ ParseCoord(fc[1].url.latitude) = a.latitude
              /\ ParseCoord(fc[1].url.longitude) = a.longitude
         /\ (~BothNonZero(a) /\ CityGiven(a)) =>
              /\ calls[i] # <<>> => calls[i][1].api = "geocoding"
              /\ fc # <<>> =>
                   /\ ge # <<>>
                   /\ fc[1].url.latitude
                        = StringOf(Get(FirstResult(ge[1].ret.value), "latitude"))
                   /\ fc[1].url.longitude
                        = StringOf(Get(FirstResult(ge[1].ret.value), "longitude"))
         /\ (~BothNonZero(a) /\ ~CityGiven(a)) =>
              /\ Len(calls[i]) = 1
              /\ fc # <<>>
              /\ fc[1].url.latitude = "50.4501"
              /\ fc[1].url.longitude = "30.5234"

C3_Witness ==
  \E i \in Invocations :
    /\ pc[i] = "done"
    /\ BothNonZero(args[i])
    /\ CityGiven(args[i])
    /\ Len(calls[i]) = 1
    /\ calls[i][1].url.latitude = "-33.5"
    /\ calls[i][1].url.longitude = "24.0297"
    /\ OneTextItem(result[i])

\* C4: with latitude and longitude both omitted and no city given, no geocoding
\* request is made, the forecast query asks for 50.4501, 30.5234, and the
\* formatter is passed those coordinates and the name "Kyiv".
C4_DefaultIsKyiv ==
  \A i \in Invocations :
    ( /\ pc[i] # "idle"
      /\ args[i].latitude.t = "undefined"
      /\ args[i].longitude.t = "undefined"
      /\ args[i].city.t = "undefined" ) =>
        /\ Len(CallsTo(i, "geocoding")) = 0
        /\ Len(calls[i]) = 1
        /\ calls[i][1].api = "forecast"
        /\ calls[i][1].url.base = FORECAST_BASE
        /\ calls[i][1].url.latitude = "50.4501"
        /\ calls[i][1].url.longitude = "30.5234"
        /\ lat[i] = Num(504501) /\ lon[i] = Num(305234)
        /\ placeName[i] = Str("Kyiv")
        /\ \A k \in 1..Len(formatted[i]) :
             /\ formatted[i][k].lat = Num(504501)
             /\ formatted[i][k].lon = Num(305234)
             /\ formatted[i][k].placeName = Str("Kyiv")
        /\ (pc[i] = "done" /\ formatted[i] # <<>>) =>
             /\ OneTextItem(result[i])
             /\ result[i].content[1].text[1]
                  = <<T.forecastFor, " ", "Kyiv (50.4501, 30.5234)">>

C4_Witness ==
  \E i \in Invocations :
    /\ pc[i] = "done"
    /\ args[i] = [city |-> Undef, latitude |-> Undef, longitude |-> Undef]
    /\ Len(formatted[i]) = 1
    /\ OneTextItem(result[i])

\* the text is one of the two failure messages
IsFailureText(text) ==
  /\ Len(text) = 1
  /\ Len(text[1]) >= 1
  /\ text[1][1] = T.failed

\* C5: when the coordinates were resolved and the fetcher returned null for the
\* forecast request, the invocation has returned the generic failure message,
\* which no "not found" message equals, without calling the formatter and
\* without throwing; and a formatted forecast is returned only when the
\* forecast fetch returned a payload that is not null.
C5_ForecastNull ==
  \A i \in Invocations :
    LET fc == FetchedFrom(i, "forecast")
    IN /\ (fc # <<>> /\ fc[1].ret.value.t = "null") =>
            /\ pc[i] = "done"
            /\ result[i] = TextResult(FailedText)
            /\ OneTextItem(result[i])
            /\ formatted[i] = <<>>
            /\ \A c \in Cities : FailedText # NotFoundText(c)
       /\ formatted[i] # <<>> =>
            /\ fc # <<>> /\ fc[1].ret.value.t # "null"
       /\ ( /\ result[i].status = "returned"
            /\ ~IsFailureText(result[i].content[1].text) ) =>
            /\ fc # <<>> /\ fc[1].ret.value.t # "null"
            /\ formatted[i] # <<>>

C5_Witness ==
  \E i \in Invocations :
    /\ pc[i] = "done"
    /\ Len(FetchedFrom(i, "geocoding")) = 1
    /\ Len(FetchedFrom(i, "forecast")) = 1
    /\ FetchedFrom(i, "forecast")[1].outcome = Rejected
    /\ result[i] = TextResult(FailedText)

\* the request succeeded: a 2xx response whose body parses
Succeeded(o) ==
  /\ o.kind = "response"
  /\ o.status >= 200 /\ o.status <= 299
  /\ o.valid

\* C6: makeRequest never throws; it returns null when fetch rejects, the status
\* is not 2xx or the body does not parse, and the parsed JSON value exactly
\* when the response is 2xx and its body parses.
C6_FetcherAbsorbs ==
  \A i \in Invocations :
    \A k \in 1..Len(fetched[i]) :
      LET e == fetched[i][k]
      IN /\ ~e.ret.threw
         /\ ~Succeeded(e.outcome) => e.ret.value = Null
         /\ Succeeded(e.outcome) => e.ret.value = e.outcome.json

C6_Witness ==
  \E i \in Invocations :
    \E k \in 1..Len(fetched[i]) :
      LET e == fetched[i][k]
      IN /\ e.outcome.kind = "response"
         /\ e.outcome.status = 404
         /\ e.outcome.valid
         /\ e.outcome.json.t = "object"
         /\ e.ret = Returned(Null)

(* ------------------------ the formatter (SpecFormat) ------------------- *)

\* the payload has a current-conditions record
HasCurrent(data) ==
  /\ data.t = "object"
  /\ "current_weather" \in DOMAIN data.f
  /\ data.f.current_weather.t = "object"

\* the payload has a daily-series record whose date sequence is not empty
HasSeries(data) ==
  /\ data.t = "object"
  /\ "daily" \in DOMAIN data.f
  /\ data.f.daily.t = "object"
  /\ "time" \in DOMAIN data.f.daily.f
  /\ data.f.daily.f.time.t = "array"
  /\ Len(data.f.daily.f.time.a) > 0

SeriesLength(data) == Len(data.f.daily.f.time.a)

\* the blank line and the header of the daily section stand at k and k + 1
DailyHeaderAt(text, k) ==
  /\ k >= 1 /\ k + 1 <= Len(text)
  /\ text[k] = <<>>
  /\ text[k + 1] = <<"Dennyi prohnoz:">>

\* the line is one of the daily lines
IsDailyLine(line) == Len(line) = 10 /\ line[2] = " - "

\* the line belongs to the current-conditions block
IsCurrentLine(line) ==
  \/ line = <<T.current, ":">>
  \/ Len(line) >= 1 /\ line[1] \in {T.temperature, T.wind, "Chas: "}

\* C7: the formatter emits a daily section exactly when the payload has a daily
\* record with a non-empty date sequence; the section is a blank line, the
\* daily header and min(7, n) daily lines in the order of the n dates, and ends
\* the text. With current conditions too the text is the header line, the
\* blank-prefixed block of 4 lines, the blank-prefixed daily header and those
\* daily lines, and nothing else.
C7_DailySection ==
  (fmtOut.done /\ ~fmtOut.threw) =>
    LET text == fmtOut.text
        data == fmtIn.data
    IN /\ ~HasSeries(data) =>
            /\ \A k \in 1..Len(text) : ~DailyHeaderAt(text, k) /\ ~IsDailyLine(text[k])
            /\ text # <<>> /\ text[Len(text)] # <<"Dennyi prohnoz:">>
       /\ HasSeries(data) =>
            LET m == IF SeriesLength(data) < 7 THEN SeriesLength(data) ELSE 7
                h == Len(text) - m - 1
            IN /\ DailyHeaderAt(text, h)
               /\ \A k \in 1..Len(text) : DailyHeaderAt(text, k) => k = h
               /\ \A k \in 1..Len(text) : IsDailyLine(text[k]) <=> k > h + 1
               /\ \A j \in 1..m :
                    text[h + 1 + j][1] = data.f.daily.f.time.a[j].s
               /\ HasCurrent(data) =>
                    /\ Len(text) = 1 + 5 + 2 + m
                    /\ text[1][1] = T.forecastFor
                    /\ text[2] = <<>>
                    /\ \A k \in 3..6 : IsCurrentLine(text[k])
                    /\ h = 7
               /\ ~HasCurrent(data) => Len(text) = 1 + 1 + 2 + m

C7_Witness ==
  /\ fmtOut.done /\ ~fmtOut.threw
  /\ HasCurrent(fmtIn.data)
  /\ HasSeries(fmtIn.data)
  /\ SeriesLength(fmtIn.data) > 7
  /\ Len(fmtOut.text) = 15

\* C8: without current conditions the formatter emits exactly one "no data"
\* line, right after the header, and no line of the current-conditions block;
\* with them it emits the blank-prefixed sub-header, then the temperature, the
\* wind and the timestamp line, and never the "no data" line.
C8_CurrentBlock ==
  (fmtOut.done /\ ~fmtOut.threw) =>
    LET text == fmtOut.text
        data == fmtIn.data
    IN /\ Len(text) >= 2
       /\ text[1][1] = T.forecastFor
       /\ ~HasCurrent(data) =>
            /\ text[2] = <<T.noData>>
            /\ \A k \in 1..Len(text) : text[k] = <<T.noData>> => k = 2
            /\ \A k \in 1..Len(text) : ~IsCurrentLine(text[k])
       /\ HasCurrent(data) =>
            LET cur == data.f.current_weather.f
            IN /\ Len(text) >= 6
               /\ text[2] = <<>>
               /\ text[3] = <<T.current, ":">>
               /\ text[4] = <<T.temperature, ": ", ToString(cur.temperature.n), " C">>
               /\ text[5] = <<T.wind, ": ", ToString(cur.windspeed.n), " km/h (",
                              ToString(cur.winddirection.n), " deg)">>
               /\ text[6] = <<"Chas: ", cur.time.s>>
               /\ \A k \in 1..Len(text) : text[k] # <<T.noData>>
               /\ \A k \in 1..Len(text) : IsCurrentLine(text[k]) <=> k \in 3..6

C8_Witness ==
  /\ fmtOut.done /\ ~fmtOut.threw
  /\ ~HasCurrent(fmtIn.data)
  /\ HasSeries(fmtIn.data)
  /\ fmtOut.text[2] = <<T.noData>>

(* ------------------------- requests of one invocation ------------------ *)

\* C9: an invocation issues at most one geocoding and at most one forecast
\* request and has at most one request in flight; a request that failed is not
\* repeated; and when both requests were issued, the forecast request came
\* second, after the geocoding request had completed with a result that is not
\* null, and asks for the coordinates of that result.
C9_SequentialRequests ==
  \A i \in Invocations :
    LET gc == CallsTo(i, "geocoding")
        fc == CallsTo(i, "forecast")
        gf == FetchedFrom(i, "geocoding")
    IN /\ Len(gc) <= 1
       /\ Len(fc) <= 1
       /\ Cardinality(pending[i]) <= 1
       /\ Len(fetched[i]) + Cardinality(pending[i]) = Len(calls[i])
       /\ \A k \in 1..Len(fetched[i]) :
            fetched[i][k].ret.value.t = "null" => (pc[i] = "done" /\ pending[i] = {})
       /\ (gc # <<>> /\ fc # <<>>) =>
            /\ calls[i] = gc \o fc
            /\ Len(gf) = 1
            /\ \A q \in pending[i] : q.api = "forecast"
            /\ gf[1].ret.value.t # "null"
            /\ Truthy(FirstResult(gf[1].ret.value))
            /\ fc[1].url.latitude
                 = StringOf(Get(FirstResult(gf[1].ret.value), "latitude"))
            /\ fc[1].url.longitude
                 = StringOf(Get(FirstResult(gf[1].ret.value), "longitude"))

C9_Witness ==
  \E i \in Invocations :
    /\ pc[i] = "done"
    /\ Len(calls[i]) = 2
    /\ calls[i][1].api = "geocoding"
    /\ calls[i][1].url.name = "Bila%20Tserkva"
    /\ calls[i][2].api = "forecast"
    /\ calls[i][2].url.latitude = "49.7942"
    /\ calls[i][2].url.longitude = "30.1311"
    /\ Len(fetched[i]) = 2
    /\ OneTextItem(result[i])

(* ------------------------ concurrent invocations ----------------------- *)

\* the invocation run alone on the arguments a, its requests ending with the
\* outcomes of hist, in that order
RunAlone(a, hist) ==
  LET s0 == StartStep(a)
      s1 == IF s0.next = "geocoding"
            THEN AfterGeocode(a, s0.lat, s0.lon, s0.placeName, hist[1].outcome)
            ELSE AfterForecast(s0.lat, s0.lon, s0.placeName, hist[1].outcome)
      s2 == AfterForecast(s1.lat, s1.lon, s1.placeName, hist[2].outcome)
  IN IF Len(hist) = 0 THEN s0 ELSE IF Len(hist) = 1 THEN s1 ELSE s2

\* C10: under every interleaving of the invocations at their suspension
\* points, the place an invocation has reached, its coordinates, its display
\* name, its formatter calls and its result are those of the same invocation
\* run alone on its own arguments with the responses to its own requests.
C10_NoInterference ==
  \A i \in Invocations :
    pc[i] # "idle" =>
      LET alone == RunAlone(args[i], fetched[i])
      IN /\ Len(fetched[i]) <= 2
         /\ pc[i] = alone.next
         /\ lat[i] = alone.lat
         /\ lon[i] = alone.lon
         /\ placeName[i] = alone.placeName
         /\ result[i] = alone.result
         /\ pc[i] = "done" => formatted[i] = alone.fmt

C10_Witness ==
  \E i, j \in Invocations :
    /\ i # j
    /\ pc[i] = "done"
    /\ Len(fetched[i]) = 2
    /\ Len(formatted[i]) = 1
    /\ OneTextItem(result[i])
    /\ pc[j] = "forecasting"
    /\ Len(fetched[j]) = 0
    /\ pending[j] # {}
    /\ lat[j] # lat[i]
    /\ placeName[j] # placeName[i]

====
